---- MODULE Spec2Model ----
(***************************************************************************)
(* Model of Bino's display widget (src/widget.cpp): the stereo view        *)
(* compositor Widget::paintGL, the 360-degree drag gesture handlers, the   *)
(* viewport tracker and the initialization of the OpenGL resources.        *)
(*                                                                         *)
(* Every handler of the widget is one action.  The external calls a        *)
(* handler makes (Bino, OpenGL, QWidget::update) are recorded, in program  *)
(* order, in the variable `calls`, which always holds the calls of the     *)
(* most recently executed handler.                                         *)
(*                                                                         *)
(* float values are modelled as exact extended rationals <<n, d>> with     *)
(* d >= 0: d > 0 is the rational n/d in lowest terms, <<1,0>> and <<-1,0>> *)
(* are +inf and -inf, <<0,0>> is NaN.  Rounding and the sign of zero are   *)
(* not modelled.                                                           *)
(***************************************************************************)
EXTENDS Integers, Sequences, FiniteSets, TLC

----------------------------------------------------------------------------
(* Bounds of the model *)

\* drawables are up to MaxSize pixels wide and high
MaxSize == 3
\* view textures rendered by Bino are 1..MaxViewDim pixels wide
MaxViewDim == 2
\* the aspect-fit factors are computed for drawables of up to MaxAspectSize
\* pixels and aspect ratios n/d with n and d up to MaxAspectSize
MaxAspectSize == 4
\* the committed view direction stays within MaxTurns half turns (180 degrees
\* horizontally, 90 degrees vertically) of the initial direction
MaxTurns == 1

----------------------------------------------------------------------------
(* float arithmetic *)

Abs(x) == IF x < 0 THEN -x ELSE x

Sgn(x) == IF x < 0 THEN -1 ELSE IF x > 0 THEN 1 ELSE 0

RECURSIVE GCD(_, _)
GCD(a, b) == IF b = 0 THEN a ELSE GCD(b, a % b)

\* the float n/d, d >= 0
Flt(n, d) ==
    IF d = 0 THEN <<Sgn(n), 0>>
    ELSE LET g == GCD(Abs(n), d) IN <<n \div g, d \div g>>

FZero == Flt(0, 1)
FOne == Flt(1, 1)
FNaN == <<0, 0>>

\* conversion int -> float
FromInt(i) == <<i, 1>>

IsNaN(a) == a = FNaN
IsFinite(a) == a[2] # 0

FNeg(a) == <<-a[1], a[2]>>

FAdd(a, b) ==
    IF IsFinite(a) /\ IsFinite(b) THEN Flt(a[1] * b[2] + b[1] * a[2], a[2] * b[2])
    ELSE IF IsNaN(a) \/ IsNaN(b) THEN FNaN
    ELSE IF ~IsFinite(a) /\ ~IsFinite(b) THEN (IF a = b THEN a ELSE FNaN)
    ELSE IF ~IsFinite(a) THEN a ELSE b

FMul(a, b) == Flt(a[1] * b[1], a[2] * b[2])

FRecip(a) ==
    IF a[1] = 0 THEN (IF a[2] = 0 THEN FNaN ELSE <<1, 0>>)
    ELSE IF a[2] = 0 THEN FZero
    ELSE Flt(Sgn(a[1]) * a[2], Abs(a[1]))

FDiv(a, b) == FMul(a, FRecip(b))

\* a < b; false when either is NaN
FLt(a, b) == ~IsNaN(a) /\ ~IsNaN(b) /\ a[1] * b[2] < b[1] * a[2]

FLe(a, b) == ~IsNaN(a) /\ ~IsNaN(b) /\ a[1] * b[2] <= b[1] * a[2] /\ (a = b \/ FLt(a, b))

----------------------------------------------------------------------------
(* enum Widget::StereoMode: the 18 enumerators the switch in paintGL names *)

Modes ==
    { "Mode_Left", "Mode_Right", "Mode_Alternating", "Mode_OpenGL_Stereo",
      "Mode_Red_Cyan_Dubois", "Mode_Red_Cyan_FullColor", "Mode_Red_Cyan_HalfColor",
      "Mode_Red_Cyan_Monochrome", "Mode_Green_Magenta_Dubois",
      "Mode_Green_Magenta_FullColor", "Mode_Green_Magenta_HalfColor",
      "Mode_Green_Magenta_Monochrome", "Mode_Amber_Blue_Dubois",
      "Mode_Amber_Blue_FullColor", "Mode_Amber_Blue_HalfColor",
      "Mode_Amber_Blue_Monochrome", "Mode_Red_Green_Monochrome",
      "Mode_Red_Blue_Monochrome" }

\* the views of a frame: 0 is the left eye, 1 the right eye
Views == {0, 1}

----------------------------------------------------------------------------
(* State *)

VARIABLES
    phase,                  \* "constructed", "initialized" (initializeGL done), "ready"
                            \* (resizeGL was called), "exited" (std::exit)
    prgLinked,              \* whether _prg holds a linked shader program
    stereoMode,             \* _stereoMode
    openGLStereo,           \* _openGLStereo
    alternatingLastView,    \* _alternatingLastView
    width, height,          \* _width, _height
    viewTexWidth,           \* _viewTexWidth[2]
    viewTexHeight,          \* _viewTexHeight[2]
    inThreeSixtyMovement,   \* _inThreeSixtyMovement
    threeSixtyMovementStart,            \* _threeSixtyMovementStart, <<x, y>>
    threeSixtyHorizontalAngleBase,      \* _threeSixtyHorizontalAngleBase
    threeSixtyVerticalAngleBase,        \* _threeSixtyVerticalAngleBase
    threeSixtyHorizontalAngleCurrent,   \* _threeSixtyHorizontalAngleCurrent
    threeSixtyVerticalAngleCurrent,     \* _threeSixtyVerticalAngleCurrent
    updatePending,          \* QWidget::update() was called and no paint happened since
    calls,                  \* the external calls of the last handler, in order
    event,                  \* observer: the name of the last handler
    gesture                 \* observer: the drag since the last mouse press

glVars == <<phase, prgLinked, viewTexWidth, viewTexHeight>>
stereoVars == <<stereoMode, openGLStereo, alternatingLastView>>
sizeVars == <<width, height>>
angleVars == <<threeSixtyHorizontalAngleBase, threeSixtyVerticalAngleBase,
               threeSixtyHorizontalAngleCurrent, threeSixtyVerticalAngleCurrent>>
gestureVars == <<inThreeSixtyMovement, threeSixtyMovementStart>>
observerVars == <<event, gesture>>
vars == <<glVars, stereoVars, sizeVars, angleVars, gestureVars, updatePending, calls,
          observerVars>>

----------------------------------------------------------------------------
(* Widget::Widget *)

\* The state after construction.  _width, _height and the view texture sizes
\* are not initialized by the constructor: they start with some value of sizes
\* and of texDims.  No handler reads them before initializeGL and resizeGL
\* have set them.
Constructed(modes, hwStereo, sizes, texDims) ==
    /\ phase = "constructed"
    /\ prgLinked = FALSE
    /\ stereoMode \in modes
    /\ openGLStereo \in hwStereo
    /\ alternatingLastView = 1
    /\ \E size \in sizes : width = size /\ height = size
    /\ \E dim \in texDims :
          /\ viewTexWidth = [v \in Views |-> dim]
          /\ viewTexHeight = [v \in Views |-> dim]
    /\ inThreeSixtyMovement = FALSE
    /\ threeSixtyMovementStart = <<0, 0>>
    /\ threeSixtyHorizontalAngleBase = FZero
    /\ threeSixtyVerticalAngleBase = FZero
    /\ threeSixtyHorizontalAngleCurrent = FZero
    /\ threeSixtyVerticalAngleCurrent = FZero
    /\ updatePending = FALSE
    /\ calls = <<>>

----------------------------------------------------------------------------
(* Widget::setStereoMode *)

SetStereoMode(mode) ==
    /\ phase # "exited"
    /\ stereoMode' = mode
    /\ calls' = <<>>
    /\ UNCHANGED <<glVars, openGLStereo, alternatingLastView, sizeVars, angleVars,
                   gestureVars, updatePending>>

----------------------------------------------------------------------------
(* Widget::initializeGL *)

\* line 93: the context is good enough
ContextIsOk(ctx) == ctx.valid /\ ctx.major >= 3 /\ ctx.minor >= 2

\* line 101: stereo was asked for in the default format but the context has none
StereoMissing(hwStereo, ctx) == hwStereo /\ ~ctx.stereo

\* lines 93-95 and 101: what the handler asks the context
ContextCalls(ctx) ==
    << [op |-> "context", valid |-> ctx.valid, major |-> ctx.major,
        minor |-> ctx.minor, stereo |-> ctx.stereo] >>

FatalCalls(msg) ==
    << [op |-> "LOG_FATAL", text |-> msg],
       [op |-> "QMessageBox::critical", text |-> msg],
       [op |-> "std::exit", code |-> 1] >>

\* the 1x1 view textures, the quad, the shader program and Bino's processing
InitCalls ==
    << [op |-> "glTexImage2D", view |-> 0, width |-> 1, height |-> 1],
       [op |-> "glTexImage2D", view |-> 1, width |-> 1, height |-> 1],
       [op |-> "glGenVertexArrays"],
       [op |-> "addShaderFromSourceCode", stage |-> "Vertex"],
       [op |-> "addShaderFromSourceCode", stage |-> "Fragment"],
       [op |-> "link"],
       [op |-> "initProcess"] >>

InitializeGL(ctx) ==
    /\ phase = "constructed"
    /\ IF ~ContextIsOk(ctx)
       THEN /\ phase' = "exited"
            /\ calls' = ContextCalls(ctx) \o FatalCalls("insufficient OpenGL capabilities")
            /\ UNCHANGED <<prgLinked, viewTexWidth, viewTexHeight>>
       ELSE IF StereoMissing(openGLStereo, ctx)
       THEN /\ phase' = "exited"
            /\ calls' = ContextCalls(ctx)
                         \o FatalCalls("OpenGL stereo mode is not available on this system")
            /\ UNCHANGED <<prgLinked, viewTexWidth, viewTexHeight>>
       ELSE /\ phase' = "initialized"
            /\ viewTexWidth' = [v \in Views |-> 1]
            /\ viewTexHeight' = [v \in Views |-> 1]
            /\ prgLinked' = ctx.linkOk
            /\ calls' = ContextCalls(ctx) \o InitCalls
    /\ UNCHANGED <<stereoVars, sizeVars, angleVars, gestureVars, updatePending>>

----------------------------------------------------------------------------
(* Widget::resizeGL *)

ResizeGL(w, h) ==
    /\ phase \in {"initialized", "ready"}
    /\ phase' = "ready"
    /\ width' = w
    /\ height' = h
    /\ calls' = <<>>
    /\ UNCHANGED <<prgLinked, viewTexWidth, viewTexHeight, stereoVars, angleVars,
                   gestureVars, updatePending>>

----------------------------------------------------------------------------
(* the lambda connected to Bino::newVideoFrame in the constructor *)

NewVideoFrame ==
    /\ phase = "ready"
    /\ updatePending' = TRUE
    /\ calls' = <<[op |-> "update"]>>
    /\ UNCHANGED <<glVars, stereoVars, sizeVars, angleVars, gestureVars>>

----------------------------------------------------------------------------
(* Widget::paintGL *)

\* mutant: the mode is not forced to Mode_Left for a mono frame
EffectiveModeUnforced(mode, viewCount) == mode

\* lines 196-199: the mode used for this frame
EffectiveMode(mode, viewCount) ==
    IF viewCount = 2 THEN mode ELSE "Mode_Left"

\* mutant: Mode_Alternating renders the view that was shown last
NeedThisViewStale(mode, v, lastView) ==
    CASE mode = "Mode_Left" -> v = 0
      [] mode = "Mode_Right" -> v = 1
      [] mode = "Mode_Alternating" -> v = lastView
      [] OTHER -> TRUE

\* mutant: the composite modes fall into the case of Mode_Left
NeedThisViewLeftOnly(mode, v, lastView) ==
    CASE mode = "Mode_Right" -> v = 1
      [] mode = "Mode_Alternating" -> v # lastView
      [] OTHER -> v = 0

\* mutant: Mode_Left and Mode_Right render the view of the other eye
NeedThisViewSwapped(mode, v, lastView) ==
    CASE mode = "Mode_Left" -> v = 1
      [] mode = "Mode_Right" -> v = 0
      [] mode = "Mode_Alternating" -> v # lastView
      [] OTHER -> TRUE

\* lines 203-230: whether view v has to be rendered
NeedThisView(mode, v, lastView) ==
    CASE mode = "Mode_Left" -> v = 0
      [] mode = "Mode_Right" -> v = 1
      [] mode = "Mode_Alternating" -> v # lastView
      [] OTHER -> TRUE

\* mutant: the texture is reallocated for every render
TexSizeDiffersAlways(v, f) == TRUE

\* line 235: the texture of view v has to be reallocated for frame f
TexSizeDiffers(v, f) ==
    viewTexWidth[v] # f.viewWidth \/ viewTexHeight[v] # f.viewHeight

\* lines 245-260: the arguments of Bino::render for view v
RenderCall(v, f) ==
    [ op |-> "render", view |-> v, width |-> f.viewWidth, height |-> f.viewHeight,
      threeSixty |-> f.threeSixty,
      aspectRatio |-> IF f.threeSixty THEN FDiv(FromInt(width), FromInt(height))
                      ELSE FOne,
      pitch |-> IF f.threeSixty
                THEN FNeg(FAdd(threeSixtyVerticalAngleBase, threeSixtyVerticalAngleCurrent))
                ELSE FZero,
      yaw |-> IF f.threeSixty
              THEN FNeg(FAdd(threeSixtyHorizontalAngleBase, threeSixtyHorizontalAngleCurrent))
              ELSE FZero ]

\* mutant: the mipmaps are generated before the view is rendered
FillViewCallsMipmapFirst(v, mode, f) ==
    IF ~NeedThisView(mode, v, alternatingLastView) THEN <<>>
    ELSE (IF TexSizeDiffers(v, f)
          THEN <<[op |-> "glTexImage2D", view |-> v,
                  width |-> f.viewWidth, height |-> f.viewHeight]>>
          ELSE <<>>)
         \o << [op |-> "LOG_FIREHOSE", view |-> v, stereoMode |-> mode],
               [op |-> "glGenerateMipmap", view |-> v],
               RenderCall(v, f) >>

\* lines 202-264: one iteration of the loop over the views
FillViewCalls(v, mode, f) ==
    IF ~NeedThisView(mode, v, alternatingLastView) THEN <<>>
    ELSE (IF TexSizeDiffers(v, f)
          THEN <<[op |-> "glTexImage2D", view |-> v,
                  width |-> f.viewWidth, height |-> f.viewHeight]>>
          ELSE <<>>)
         \o << [op |-> "LOG_FIREHOSE", view |-> v, stereoMode |-> mode],
               RenderCall(v, f),
               [op |-> "glGenerateMipmap", view |-> v] >>

\* mutant: the comparison of the two aspect ratios is turned around
AspectFitReversed(w, h, frameDisplayAspectRatio) ==
    LET screenAspectRatio == FDiv(FromInt(w), FromInt(h))
    IN  IF FLt(frameDisplayAspectRatio, screenAspectRatio)
        THEN [relWidth |-> FOne,
              relHeight |-> FDiv(screenAspectRatio, frameDisplayAspectRatio)]
        ELSE [relWidth |-> FDiv(frameDisplayAspectRatio, screenAspectRatio),
              relHeight |-> FOne]

\* lines 270-276: the aspect-fit factors
AspectFit(w, h, frameDisplayAspectRatio) ==
    LET screenAspectRatio == FDiv(FromInt(w), FromInt(h))
    IN  IF FLt(screenAspectRatio, frameDisplayAspectRatio)
        THEN [relWidth |-> FOne,
              relHeight |-> FDiv(screenAspectRatio, frameDisplayAspectRatio)]
        ELSE [relWidth |-> FDiv(frameDisplayAspectRatio, screenAspectRatio),
              relHeight |-> FOne]

\* mutant: Mode_Alternating is handed on as it is
ResolveAlternatingNot(mode, lastView) == mode

\* mutant: Mode_Alternating becomes the eye that was shown last
ResolveAlternatingSame(mode, lastView) ==
    IF mode = "Mode_Alternating"
    THEN (IF lastView = 0 THEN "Mode_Left" ELSE "Mode_Right")
    ELSE mode

\* lines 298 and 308: Mode_Alternating becomes the eye that is due
ResolveAlternating(mode, lastView) ==
    IF mode = "Mode_Alternating"
    THEN (IF lastView = 0 THEN "Mode_Right" ELSE "Mode_Left")
    ELSE mode

SetStereoModeUniform(mode) ==
    [op |-> "setUniformValue", name |-> "stereoMode", value |-> mode]

GlDrawBuffer(buf) == [op |-> "glDrawBuffer", buffer |-> buf]

GlDrawElements == [op |-> "glDrawElements"]

\* mutant: under Mode_OpenGL_Stereo the uniform is not set again for the
\* right buffer
DrawCallsOneUniform(hwStereo, mode, lastView) ==
    IF hwStereo
    THEN << SetStereoModeUniform(IF mode = "Mode_OpenGL_Stereo" THEN "Mode_Left"
                                 ELSE ResolveAlternating(mode, lastView)),
            GlDrawBuffer("GL_BACK_LEFT"), GlDrawElements,
            GlDrawBuffer("GL_BACK_RIGHT"), GlDrawElements >>
    ELSE << SetStereoModeUniform(ResolveAlternating(mode, lastView)), GlDrawElements >>

\* lines 287-311: the draws of the quad
DrawCalls(hwStereo, mode, lastView) ==
    IF hwStereo
    THEN IF mode = "Mode_OpenGL_Stereo"
         THEN << GlDrawBuffer("GL_BACK_LEFT"), SetStereoModeUniform("Mode_Left"),
                 GlDrawElements,
                 GlDrawBuffer("GL_BACK_RIGHT"), SetStereoModeUniform("Mode_Right"),
                 GlDrawElements >>
         ELSE << SetStereoModeUniform(ResolveAlternating(mode, lastView)),
                 GlDrawBuffer("GL_BACK_LEFT"), GlDrawElements,
                 GlDrawBuffer("GL_BACK_RIGHT"), GlDrawElements >>
    ELSE << SetStereoModeUniform(ResolveAlternating(mode, lastView)), GlDrawElements >>

\* mutant: the parity flips on mono frames too
AlternatingFrameAnyCount(mode, viewCount) ==
    mode = "Mode_Alternating"

\* line 314: the parity flips and another redraw is requested
AlternatingFrame(mode, viewCount) ==
    mode = "Mode_Alternating" /\ viewCount = 2

\* line 315
FlipView(lastView) == IF lastView = 0 THEN 1 ELSE 0

\* lines 277-281: the uniforms of the composite pass
CompositeUniformCalls(fit) ==
    << [op |-> "glViewport", width |-> width, height |-> height],
       [op |-> "setUniformValue", name |-> "relativeWidth", value |-> fit.relWidth],
       [op |-> "setUniformValue", name |-> "relativeHeight", value |-> fit.relHeight] >>

PaintGL(f) ==
    /\ phase = "ready"
    /\ LET mode == EffectiveMode(stereoMode, f.viewCount)
           flip == AlternatingFrame(stereoMode, f.viewCount)
       IN  /\ calls' =
                 << [op |-> "preRenderProcess", width |-> width, height |-> height,
                     frame |-> f] >>
                 \o FillViewCalls(0, mode, f)
                 \o FillViewCalls(1, mode, f)
                 \o CompositeUniformCalls(AspectFit(width, height, f.frameDisplayAspectRatio))
                 \o DrawCalls(openGLStereo, mode, alternatingLastView)
                 \o (IF flip THEN <<[op |-> "update"]>> ELSE <<>>)
           /\ viewTexWidth' = [v \in Views |->
                 IF NeedThisView(mode, v, alternatingLastView)
                 THEN f.viewWidth ELSE viewTexWidth[v]]
           /\ viewTexHeight' = [v \in Views |->
                 IF NeedThisView(mode, v, alternatingLastView)
                 THEN f.viewHeight ELSE viewTexHeight[v]]
           /\ alternatingLastView' =
                 IF flip THEN FlipView(alternatingLastView) ELSE alternatingLastView
           /\ updatePending' = flip
    /\ UNCHANGED <<phase, prgLinked, stereoMode, openGLStereo, sizeVars, angleVars,
                   gestureVars>>

----------------------------------------------------------------------------
(* Widget::mousePressEvent, mouseReleaseEvent, mouseMoveEvent *)

MousePressEvent(pos) ==
    /\ phase = "ready"
    /\ inThreeSixtyMovement' = TRUE
    /\ threeSixtyMovementStart' = pos
    /\ threeSixtyHorizontalAngleCurrent' = FZero
    /\ threeSixtyVerticalAngleCurrent' = FZero
    /\ calls' = <<>>
    /\ UNCHANGED <<glVars, stereoVars, sizeVars, threeSixtyHorizontalAngleBase,
                   threeSixtyVerticalAngleBase, updatePending>>

\* mutant: the release drops the angles of the drag instead of committing them
MouseReleaseEventDropsCurrent ==
    /\ phase = "ready"
    /\ inThreeSixtyMovement' = FALSE
    /\ threeSixtyHorizontalAngleCurrent' = FZero
    /\ threeSixtyVerticalAngleCurrent' = FZero
    /\ calls' = <<>>
    /\ UNCHANGED <<glVars, stereoVars, sizeVars, threeSixtyMovementStart,
                   threeSixtyHorizontalAngleBase, threeSixtyVerticalAngleBase,
                   updatePending>>

\* mutant: the release does not zero the current angles
MouseReleaseEventKeepsCurrent ==
    /\ phase = "ready"
    /\ inThreeSixtyMovement' = FALSE
    /\ threeSixtyHorizontalAngleBase' =
           FAdd(threeSixtyHorizontalAngleBase, threeSixtyHorizontalAngleCurrent)
    /\ threeSixtyVerticalAngleBase' = threeSixtyVerticalAngleBase
    /\ calls' = <<>>
    /\ UNCHANGED <<glVars, stereoVars, sizeVars, threeSixtyMovementStart,
                   threeSixtyHorizontalAngleCurrent, threeSixtyVerticalAngleCurrent,
                   updatePending>>

\* the bound of the model on the committed angles; a non-finite angle is kept
AngleInRange(a, unit) ==
    IsFinite(a) => Abs(a[1]) <= unit * MaxTurns * a[2]

MouseReleaseEvent ==
    /\ phase = "ready"
    /\ AngleInRange(FAdd(threeSixtyHorizontalAngleBase, threeSixtyHorizontalAngleCurrent), 180)
    /\ AngleInRange(FAdd(threeSixtyVerticalAngleBase, threeSixtyVerticalAngleCurrent), 90)
    /\ inThreeSixtyMovement' = FALSE
    /\ threeSixtyHorizontalAngleBase' =
           FAdd(threeSixtyHorizontalAngleBase, threeSixtyHorizontalAngleCurrent)
    /\ threeSixtyVerticalAngleBase' =
           FAdd(threeSixtyVerticalAngleBase, threeSixtyVerticalAngleCurrent)
    /\ threeSixtyHorizontalAngleCurrent' = FZero
    /\ threeSixtyVerticalAngleCurrent' = FZero
    /\ calls' = <<>>
    /\ UNCHANGED <<glVars, stereoVars, sizeVars, threeSixtyMovementStart,
                   updatePending>>

\* mutant: the horizontal angle is scaled like the vertical one
HorizontalAngleQuarterTurn(dx, w) ==
    LET xf == FDiv(FromInt(dx), FromInt(w))
    IN  FMul(FNeg(xf), FromInt(90))

\* lines 354-356: the horizontal angle of a drag by dx pixels
HorizontalAngle(dx, w) ==
    LET xf == FDiv(FromInt(dx), FromInt(w))
    IN  FMul(FNeg(xf), FromInt(180))

\* lines 358-360: the vertical angle of a drag by dy pixels
VerticalAngle(dy, h) ==
    LET yf == FDiv(FromInt(dy), FromInt(h))
    IN  FMul(FNeg(yf), FromInt(90))

MouseMoveEvent(pos) ==
    /\ phase = "ready"
    /\ IF inThreeSixtyMovement
       THEN /\ threeSixtyHorizontalAngleCurrent' =
                  HorizontalAngle(pos[1] - threeSixtyMovementStart[1], width)
            /\ threeSixtyVerticalAngleCurrent' =
                  VerticalAngle(pos[2] - threeSixtyMovementStart[2], height)
            /\ updatePending' = TRUE
            /\ calls' = <<[op |-> "update"]>>
       ELSE /\ calls' = <<>>
            /\ UNCHANGED <<threeSixtyHorizontalAngleCurrent,
                           threeSixtyVerticalAngleCurrent, updatePending>>
    /\ UNCHANGED <<glVars, stereoVars, sizeVars, threeSixtyHorizontalAngleBase,
                   threeSixtyVerticalAngleBase, gestureVars>>

----------------------------------------------------------------------------
(* Widget::mediaChanged *)

\* mutant: the committed angles are reset, the angles of the drag are not
MediaChangedKeepsCurrent ==
    /\ phase # "exited"
    /\ inThreeSixtyMovement' = FALSE
    /\ threeSixtyHorizontalAngleBase' = FZero
    /\ threeSixtyVerticalAngleBase' = FZero
    /\ calls' = <<>>
    /\ UNCHANGED <<glVars, stereoVars, sizeVars, threeSixtyMovementStart,
                   threeSixtyHorizontalAngleCurrent, threeSixtyVerticalAngleCurrent,
                   updatePending>>

MediaChanged ==
    /\ phase # "exited"
    /\ inThreeSixtyMovement' = FALSE
    /\ threeSixtyHorizontalAngleBase' = FZero
    /\ threeSixtyVerticalAngleBase' = FZero
    /\ threeSixtyHorizontalAngleCurrent' = FZero
    /\ threeSixtyVerticalAngleCurrent' = FZero
    /\ calls' = <<>>
    /\ UNCHANGED <<glVars, stereoVars, sizeVars, threeSixtyMovementStart,
                   updatePending>>

----------------------------------------------------------------------------
(* The observer.  It is no part of the widget: it records which handler ran  *)
(* last and follows one drag from its press to its release, so that what a   *)
(* handler or a whole drag did can be read off a state.                      *)

NoPos == <<0, 0>>

\* no drag is being followed
NoGesture ==
    [stage |-> "none", base |-> <<FZero, FZero>>, last |-> NoPos,
     steady |-> TRUE, inside |-> TRUE]

\* pos is a pixel of the drawable as it is now
Inside(pos) == pos[1] \in 0..(width - 1) /\ pos[2] \in 0..(height - 1)

ObserveInit ==
    /\ event = "Widget"
    /\ gesture = NoGesture

\* A press starts following a drag: `base` are the committed angles at the
\* press, `last` the latest pointer position, `inside` whether every pointer
\* position of the drag was a pixel of the drawable of its time, `steady`
\* whether the drawable kept its size (after a resize `base` and `last` are
\* no longer recorded).  A release or a media change ends the drag; the
\* handler after that forgets it.
Observe(name, pos) ==
    /\ event' = name
    /\ gesture' =
         CASE name = "mousePressEvent" ->
                [stage |-> "dragging",
                 base |-> <<threeSixtyHorizontalAngleBase, threeSixtyVerticalAngleBase>>,
                 last |-> pos, steady |-> TRUE, inside |-> Inside(pos)]
           [] name = "mouseMoveEvent" ->
                IF gesture.stage = "dragging"
                THEN [gesture EXCEPT !.last = IF gesture.steady THEN pos ELSE NoPos,
                                     !.inside = gesture.inside /\ Inside(pos)]
                ELSE NoGesture
           [] name = "mouseReleaseEvent" ->
                IF gesture.stage = "dragging"
                THEN [gesture EXCEPT !.stage = "released"] ELSE NoGesture
           [] name = "mediaChanged" ->
                IF gesture.stage = "dragging"
                THEN [gesture EXCEPT !.stage = "cancelled"] ELSE NoGesture
           [] name = "resizeGL" ->
                IF gesture.stage = "dragging"
                THEN [NoGesture EXCEPT !.stage = "dragging", !.steady = FALSE,
                                       !.inside = gesture.inside]
                ELSE NoGesture
           [] OTHER ->
                IF gesture.stage = "dragging" THEN gesture ELSE NoGesture

----------------------------------------------------------------------------
(* The environment: what Qt, the window system and Bino may deliver *)

\* the contexts Qt may hand to initializeGL
Contexts ==
    [valid : BOOLEAN, major : 2..4, minor : 0..6, stereo : BOOLEAN, linkOk : BOOLEAN]

\* --- the compositor under every mode, with short drags -------------------

StereoSizes == {<<1, 1>>, <<2, 1>>}

StereoPoints == {<<0, 0>>}

\* what Bino::preRenderProcess and Bino::assumeThreeSixtyMode may answer
Frames ==
    [viewCount : 0..2, viewWidth : 1..MaxViewDim, viewHeight : {1},
     frameDisplayAspectRatio : {FOne}, threeSixty : {FALSE}]

Init == Constructed(Modes, BOOLEAN, {1, 2}, 1..MaxViewDim) /\ ObserveInit

Next ==
    \/ \E ctx \in Contexts : InitializeGL(ctx) /\ Observe("initializeGL", NoPos)
    \/ \E size \in StereoSizes : ResizeGL(size[1], size[2]) /\ Observe("resizeGL", NoPos)
    \/ \E mode \in Modes : SetStereoMode(mode) /\ Observe("setStereoMode", NoPos)
    \/ NewVideoFrame /\ Observe("newVideoFrame", NoPos)
    \/ \E f \in Frames : PaintGL(f) /\ Observe("paintGL", NoPos)
    \/ \E pos \in StereoPoints : MousePressEvent(pos) /\ Observe("mousePressEvent", pos)
    \/ \E pos \in StereoPoints : MouseMoveEvent(pos) /\ Observe("mouseMoveEvent", pos)
    \/ MouseReleaseEvent /\ Observe("mouseReleaseEvent", NoPos)
    \/ MediaChanged /\ Observe("mediaChanged", NoPos)

Spec == Init /\ [][Next]_vars

\* --- the redraws of the compositor, on one drawable size -----------------

LiveFrames ==
    [viewCount : 1..2, viewWidth : {1}, viewHeight : {1},
     frameDisplayAspectRatio : {FOne}, threeSixty : {FALSE}]

LiveInit == Constructed(Modes, BOOLEAN, {1}, {1}) /\ ObserveInit

LiveNext ==
    \/ \E ctx \in Contexts : InitializeGL(ctx) /\ Observe("initializeGL", NoPos)
    \/ ResizeGL(1, 1) /\ Observe("resizeGL", NoPos)
    \/ \E mode \in Modes : SetStereoMode(mode) /\ Observe("setStereoMode", NoPos)
    \/ NewVideoFrame /\ Observe("newVideoFrame", NoPos)
    \/ \E f \in LiveFrames : PaintGL(f) /\ Observe("paintGL", NoPos)
    \/ MousePressEvent(NoPos) /\ Observe("mousePressEvent", NoPos)
    \/ MouseMoveEvent(NoPos) /\ Observe("mouseMoveEvent", NoPos)
    \/ MouseReleaseEvent /\ Observe("mouseReleaseEvent", NoPos)
    \/ MediaChanged /\ Observe("mediaChanged", NoPos)

\* Qt's event loop delivers a paint event after update() was called: a step
\* of paintGL taken while a redraw is pending.  Such a step clears
\* updatePending or flips _alternatingLastView.
RequestedPaint ==
    /\ updatePending
    /\ phase = "ready"
    /\ event' = "paintGL"
    /\ updatePending' \in BOOLEAN
    /\ alternatingLastView' \in Views

LiveSpec ==
    LiveInit /\ [][LiveNext]_vars /\ WF_<<updatePending, alternatingLastView>>(RequestedPaint)

\* --- the drag gestures on every drawable size, under two modes -----------

\* the drawable is MaxSize or 1 pixel wide and high
Sizes == {<<MaxSize, MaxSize>>, <<1, MaxSize>>, <<MaxSize, 1>>, <<1, 1>>}

\* the pointer is on a corner pixel of the largest drawable or one pixel off
\* the origin
Points == {<<0, 0>>, <<MaxSize - 1, 0>>, <<0, MaxSize - 1>>, <<1, 1>>}

GestureModes == {"Mode_Left", "Mode_Right"}

GestureFrames ==
    [viewCount : {2}, viewWidth : {1}, viewHeight : {1},
     frameDisplayAspectRatio : {FOne}, threeSixty : {TRUE}]

GestureInit == Constructed(GestureModes, {FALSE}, {1}, {1}) /\ ObserveInit

GestureNext ==
    \/ \E ctx \in Contexts : InitializeGL(ctx) /\ Observe("initializeGL", NoPos)
    \/ \E size \in Sizes : ResizeGL(size[1], size[2]) /\ Observe("resizeGL", NoPos)
    \/ \E mode \in GestureModes : SetStereoMode(mode) /\ Observe("setStereoMode", NoPos)
    \/ NewVideoFrame /\ Observe("newVideoFrame", NoPos)
    \/ \E f \in GestureFrames : PaintGL(f) /\ Observe("paintGL", NoPos)
    \/ \E pos \in Points : MousePressEvent(pos) /\ Observe("mousePressEvent", pos)
    \/ \E pos \in Points : MouseMoveEvent(pos) /\ Observe("mouseMoveEvent", pos)
    \/ MouseReleaseEvent /\ Observe("mouseReleaseEvent", NoPos)
    \/ MediaChanged /\ Observe("mediaChanged", NoPos)

GestureSpec == GestureInit /\ [][GestureNext]_vars

\* --- the aspect fit on many drawable sizes and frame aspect ratios --------

AspectSizes == (1..MaxAspectSize) \cup {1080, 1920}

AspectRatios == {Flt(n, d) : n \in 1..MaxAspectSize, d \in 1..MaxAspectSize}

AspectFrames ==
    [viewCount : {1}, viewWidth : {1}, viewHeight : {1},
     frameDisplayAspectRatio : AspectRatios, threeSixty : {FALSE}]

AspectInit == Constructed({"Mode_Left"}, {FALSE}, {1}, {1}) /\ ObserveInit

AspectNext ==
    \/ \E ctx \in Contexts : InitializeGL(ctx) /\ Observe("initializeGL", NoPos)
    \/ \E w \in AspectSizes, h \in AspectSizes : ResizeGL(w, h) /\ Observe("resizeGL", NoPos)
    \/ \E f \in AspectFrames : PaintGL(f) /\ Observe("paintGL", NoPos)

AspectSpec == AspectInit /\ [][AspectNext]_vars

\* --- the compositor on drawables and frames without extent ----------------

\* the drawable is 0 or 1 pixel wide and high
DegenerateSizes == {<<w, h>> : w \in 0..1, h \in 0..1}

DegenerateModes == {"Mode_Left", "Mode_Alternating", "Mode_Red_Cyan_Dubois"}

\* Bino may report no view, or views without extent
DegenerateFrames ==
    [viewCount : 0..2, viewWidth : 0..1, viewHeight : 0..1,
     frameDisplayAspectRatio : {FOne}, threeSixty : BOOLEAN]

DegenerateInit == Constructed(DegenerateModes, {FALSE}, {0, 1}, {1}) /\ ObserveInit

DegenerateNext ==
    \/ \E ctx \in Contexts : InitializeGL(ctx) /\ Observe("initializeGL", NoPos)
    \/ \E size \in DegenerateSizes :
          ResizeGL(size[1], size[2]) /\ Observe("resizeGL", NoPos)
    \/ \E mode \in DegenerateModes : SetStereoMode(mode) /\ Observe("setStereoMode", NoPos)
    \/ \E f \in DegenerateFrames : PaintGL(f) /\ Observe("paintGL", NoPos)

DegenerateSpec == DegenerateInit /\ [][DegenerateNext]_vars

----------------------------------------------------------------------------
(* What the last handler did, read off `calls` *)

\* the indices of the calls of operation op
CallsOf(op) == {i \in DOMAIN calls : calls[i].op = op}

\* the last handler was paintGL
Painted == event = "paintGL"

\* the frame geometry paintGL got from preRenderProcess
PaintedFrame == calls[1].frame

\* the views paintGL rendered into their textures
RenderedViews == {calls[i].view : i \in CallsOf("render")}

\* the stereo modes paintGL logged when it rendered a view
LoggedModes == {calls[i].stereoMode : i \in CallsOf("LOG_FIREHOSE")}

\* the values paintGL gave to the shader uniform "stereoMode"
StereoModeUniforms ==
    {calls[i].value : i \in {j \in CallsOf("setUniformValue") : calls[j].name = "stereoMode"}}

\* the handler called update()
UpdateRequested == CallsOf("update") # {}

----------------------------------------------------------------------------
(* The stereo mode selector *)

\* C1: a paintGL of a frame with viewCount # 2 uses Mode_Left whatever
\* _stereoMode and _alternatingLastView are: it renders view 0 and not view 1,
\* and the mode it logs and hands to the shader is Mode_Left.
C1_MonoFrameIsLeft ==
    (Painted /\ PaintedFrame.viewCount # 2) =>
        /\ RenderedViews = {0}
        /\ LoggedModes = {"Mode_Left"}
        /\ StereoModeUniforms = {"Mode_Left"}

\* C1 happens: a mono frame was painted while Mode_Alternating was requested
\* and the parity had flipped to 0.
C1_Witness ==
    /\ Painted
    /\ PaintedFrame.viewCount = 1
    /\ stereoMode = "Mode_Alternating"
    /\ alternatingLastView = 0
    /\ RenderedViews = {0}

\* the table of section 4.2: the views needed under a mode, given the view
\* that was shown last
TableViews(mode, lastView) ==
    CASE mode = "Mode_Left" -> {0}
      [] mode = "Mode_Right" -> {1}
      [] mode = "Mode_Alternating" -> {v \in Views : v # lastView}
      [] OTHER -> {0, 1}

\* C2 (amended): for a stereo frame and each of the 18 stereo modes, paintGL
\* renders the views of the table: Mode_Left view 0, Mode_Right view 1,
\* Mode_Alternating the view that differs from _alternatingLastView as it was
\* when paintGL began, every other mode both views.
C2_TableOfViews ==
    [][(Painted' /\ PaintedFrame'.viewCount = 2) =>
           /\ stereoMode \in Modes
           /\ RenderedViews' = TableViews(stereoMode, alternatingLastView)]_vars

\* C2 as stated: the table holds and the stereo modes number 16.
C2_SixteenModes ==
    /\ Cardinality(Modes) = 16
    /\ (Painted /\ PaintedFrame.viewCount = 2) =>
           RenderedViews = TableViews(stereoMode, 1 - alternatingLastView)

\* C2 happens: a stereo frame was painted under Mode_Alternating and the one
\* view rendered is view 1.
C2_Witness ==
    /\ Painted
    /\ PaintedFrame.viewCount = 2
    /\ stereoMode = "Mode_Alternating"
    /\ RenderedViews = {1}

\* C3 as stated: under every requested mode other than Mode_Alternating a
\* stereo frame has both views rendered.
C3_AllButAlternating ==
    (Painted /\ PaintedFrame.viewCount = 2 /\ stereoMode # "Mode_Alternating") =>
        RenderedViews = {0, 1}

\* C3 (amended): under every requested mode other than Mode_Left, Mode_Right
\* and Mode_Alternating a stereo frame has both views rendered.
C3_CompositeModes ==
    (Painted /\ PaintedFrame.viewCount = 2
        /\ stereoMode \notin {"Mode_Left", "Mode_Right", "Mode_Alternating"}) =>
        RenderedViews = {0, 1}

\* C3 happens: a stereo frame was painted under an anaglyph mode.
C3_Witness ==
    /\ Painted
    /\ PaintedFrame.viewCount = 2
    /\ stereoMode = "Mode_Red_Cyan_Dubois"
    /\ RenderedViews = {0, 1}

----------------------------------------------------------------------------
(* The alternating parity *)

\* the last paintGL was one of a stereo frame under Mode_Alternating
PaintedAlternating ==
    Painted /\ stereoMode = "Mode_Alternating" /\ PaintedFrame.viewCount = 2

\* C4: _alternatingLastView is 0 or 1; a paintGL under Mode_Alternating of a
\* frame with viewCount = 2 flips it, and every other step (a paintGL of a mono
\* frame or under another mode, setStereoMode, resizeGL, a pointer event,
\* mediaChanged, a new video frame) leaves it as it is.
C4_ParityFlipsOncePerStereoFrame ==
    /\ [](alternatingLastView \in {0, 1})
    /\ [][IF PaintedAlternating'
          THEN alternatingLastView' = 1 - alternatingLastView
          ELSE alternatingLastView' = alternatingLastView]_vars

\* C4 happens: the parity, 1 after construction, is 0 after a paintGL of a
\* stereo frame under Mode_Alternating.
C4_Witness ==
    PaintedAlternating /\ alternatingLastView = 0

\* the views the shader shows alone, by the "stereoMode" uniform
ShownViews ==
    {v \in Views : (IF v = 0 THEN "Mode_Left" ELSE "Mode_Right") \in StereoModeUniforms}

\* C5: paintGL calls update() exactly when the requested mode is
\* Mode_Alternating and the frame has two views, and the redraw is then
\* pending; such a paintGL shows the view other than the one shown last and
\* records it as shown last; and as long as the mode stays Mode_Alternating
\* and the frames stay stereo it is followed by another paintGL, which flips
\* the parity again.
C5_AlternatingRedraw ==
    /\ [](Painted => (UpdateRequested <=> PaintedAlternating))
    /\ [](Painted => (updatePending <=> PaintedAlternating))
    /\ [][PaintedAlternating' =>
            /\ ShownViews' = Views \ {alternatingLastView}
            /\ ShownViews' = {alternatingLastView'}]_vars
    /\ \A p \in Views :
          (PaintedAlternating /\ alternatingLastView = p)
             ~> \/ alternatingLastView # p
                \/ stereoMode # "Mode_Alternating"
                \/ (Painted /\ PaintedFrame.viewCount # 2)

\* C5 happens: after two paintGL of stereo frames under Mode_Alternating the
\* parity is back at 1, the left view is shown and a redraw is pending.
C5_Witness ==
    /\ PaintedAlternating
    /\ alternatingLastView = 1
    /\ ShownViews = {1}
    /\ UpdateRequested
    /\ updatePending

----------------------------------------------------------------------------
(* The 360-degree orientation *)

\* no angle of the drag in flight
CurrentIsZero ==
    threeSixtyHorizontalAngleCurrent = FZero /\ threeSixtyVerticalAngleCurrent = FZero

BaseIsZero ==
    threeSixtyHorizontalAngleBase = FZero /\ threeSixtyVerticalAngleBase = FZero

\* C6: after mediaChanged, whatever the state it ran in, the four angles are
\* zero and no drag is active.
C6_MediaChangedResets ==
    event = "mediaChanged" =>
        BaseIsZero /\ CurrentIsZero /\ ~inThreeSixtyMovement

\* C6 happens: mediaChanged ran in the middle of a drag that had begun with
\* committed angles other than zero and had moved the pointer on both axes.
C6_Witness ==
    /\ event = "mediaChanged"
    /\ gesture.stage = "cancelled"
    /\ gesture.steady
    /\ gesture.base[1] # FZero /\ gesture.base[2] # FZero
    /\ gesture.last[1] # threeSixtyMovementStart[1]
    /\ gesture.last[2] # threeSixtyMovementStart[2]
    /\ BaseIsZero /\ CurrentIsZero /\ ~inThreeSixtyMovement

\* the pointer displacement of the followed drag
DragDx == gesture.last[1] - threeSixtyMovementStart[1]
DragDy == gesture.last[2] - threeSixtyMovementStart[2]

\* C7: after press, moves and release with no resize and no media change in
\* between, the committed angles are those at the press plus
\* (-dx/width*180, -dy/height*90), (dx, dy) being the displacement of the last
\* pointer position from the press position; the current angles are zero and
\* no drag is active.  A drag of 250 of 1000 pixels is -45 degrees.
C7_DragCommitsScaledDisplacement ==
    /\ HorizontalAngle(250, 1000) = FromInt(-45)
    /\ (gesture.stage = "released" /\ gesture.steady) =>
          /\ threeSixtyHorizontalAngleBase =
                FAdd(gesture.base[1], Flt(-DragDx * 180, width))
          /\ threeSixtyVerticalAngleBase =
                FAdd(gesture.base[2], Flt(-DragDy * 90, height))
          /\ CurrentIsZero
          /\ ~inThreeSixtyMovement

\* C7 happens: a drag on both axes was released on a drawable that is not
\* square, and the committed angles were not zero when it began.
C7_Witness ==
    /\ gesture.stage = "released" /\ gesture.steady
    /\ DragDx # 0 /\ DragDy # 0
    /\ width # height
    /\ gesture.base[1] # FZero /\ gesture.base[2] # FZero
    /\ threeSixtyHorizontalAngleBase # gesture.base[1]

\* C8: the current angles are zero whenever no drag is active.
C8_CurrentZeroUnlessDragging ==
    ~inThreeSixtyMovement => CurrentIsZero

\* C8 happens: a drag that had moved the pointer was released (the current
\* angles were not zero while it was active).
C8_Witness ==
    /\ gesture.stage = "released" /\ gesture.steady
    /\ DragDx # 0 /\ DragDy # 0
    /\ ~inThreeSixtyMovement
    /\ CurrentIsZero

\* |a| <= limit, for a float a and an integer limit
WithinLimit(a, limit) == IsFinite(a) /\ Abs(a[1]) <= limit * a[2]

\* C9 as stated: while every pointer position of a drag was a pixel of the
\* drawable of its time, the current horizontal angle is within [-180, 180]
\* and the current vertical angle within [-90, 90] degrees.
C9_AnglesWithinHalfTurn ==
    (gesture.stage = "dragging" /\ gesture.inside) =>
        /\ WithinLimit(threeSixtyHorizontalAngleCurrent, 180)
        /\ WithinLimit(threeSixtyVerticalAngleCurrent, 90)

----------------------------------------------------------------------------
(* The aspect fit *)

\* the value paintGL gave to the float uniform `name`
UniformValue(name) ==
    LET i == CHOOSE j \in CallsOf("setUniformValue") : calls[j].name = name
    IN  calls[i].value

\* 0 < a <= 1
InUnitInterval(a) == IsFinite(a) /\ 0 < a[1] /\ a[1] <= a[2]

\* C10: for a positive drawable size and a positive frame aspect ratio n/d,
\* with the screen aspect ratio width/height: if it is less than n/d then
\* relWidth = 1 and relHeight = (width/height)/(n/d), else relHeight = 1 and
\* relWidth = (n/d)/(width/height); both factors are in (0, 1]; both are 1
\* when the ratios are equal and exactly one is less than 1 otherwise.
\* 1920x1080 with ratio 2 gives relWidth = 1 and relHeight = 8/9.
C10_AspectFitFactors ==
    /\ AspectFit(1920, 1080, FromInt(2)) = [relWidth |-> FOne, relHeight |-> Flt(8, 9)]
    /\ Painted =>
          LET n == PaintedFrame.frameDisplayAspectRatio[1]
              d == PaintedFrame.frameDisplayAspectRatio[2]
              relWidth == UniformValue("relativeWidth")
              relHeight == UniformValue("relativeHeight")
          IN  /\ width > 0 /\ height > 0 /\ n > 0 /\ d > 0
              /\ IF width * d < n * height
                 THEN relWidth = FOne /\ relHeight = Flt(width * d, height * n)
                 ELSE relHeight = FOne /\ relWidth = Flt(n * height, d * width)
              /\ InUnitInterval(relWidth) /\ InUnitInterval(relHeight)
              /\ IF width * d = n * height
                 THEN relWidth = FOne /\ relHeight = FOne
                 ELSE (relWidth = FOne) # (relHeight = FOne)

\* C10 happens: a frame of aspect ratio 2 was painted on a drawable of
\* 1920x1080 pixels and the height was shrunk to 8/9.
C10_Witness ==
    /\ Painted
    /\ width = 1920 /\ height = 1080
    /\ PaintedFrame.frameDisplayAspectRatio = FromInt(2)
    /\ UniformValue("relativeWidth") = FOne
    /\ UniformValue("relativeHeight") = Flt(8, 9)

----------------------------------------------------------------------------
(* The view textures *)

\* the views whose texture storage paintGL allocated anew
ReallocatedViews == {calls[i].view : i \in CallsOf("glTexImage2D")}

\* C11: in a paintGL the texture of view v is reallocated only if v is
\* rendered and the stored width or height differs from the frame's, and at
\* most once; a view rendered while its stored size is the frame's is not
\* reallocated; after the paintGL the stored size of a rendered view is the
\* frame's and that of a view not rendered is what it was.
C11_TextureReallocation ==
    [][Painted' =>
         \A v \in Views :
            /\ v \in ReallocatedViews' <=>
                  /\ v \in RenderedViews'
                  /\ \/ viewTexWidth[v] # PaintedFrame'.viewWidth
                     \/ viewTexHeight[v] # PaintedFrame'.viewHeight
            /\ Cardinality({i \in CallsOf("glTexImage2D")' : calls'[i].view = v}) <= 1
            /\ v \in RenderedViews' =>
                  /\ viewTexWidth'[v] = PaintedFrame'.viewWidth
                  /\ viewTexHeight'[v] = PaintedFrame'.viewHeight
            /\ v \notin RenderedViews' =>
                  /\ viewTexWidth'[v] = viewTexWidth[v]
                  /\ viewTexHeight'[v] = viewTexHeight[v]]_vars

\* C11 happens: view 0 was rendered at the width its texture already had
\* since an earlier paintGL, and nothing was reallocated; view 1, not
\* rendered, still has the size initializeGL gave it.
C11_Witness ==
    /\ Painted
    /\ RenderedViews = {0}
    /\ ReallocatedViews = {}
    /\ PaintedFrame.viewWidth = MaxViewDim
    /\ viewTexWidth[0] = MaxViewDim
    /\ viewTexWidth[1] = 1

----------------------------------------------------------------------------
(* The draws of the quad *)

\* the draws of the last handler
Draws == CallsOf("glDrawElements")

\* the greatest index of S below i, 0 if there is none
LastBefore(S, i) ==
    LET below == {j \in S : j < i}
    IN  IF below = {} THEN 0 ELSE CHOOSE j \in below : \A k \in below : k <= j

\* the buffer draw i goes to: the one chosen by the last glDrawBuffer before
\* it, the default target if there was none
DrawTarget(i) ==
    LET j == LastBefore(CallsOf("glDrawBuffer"), i)
    IN  IF j = 0 THEN "default" ELSE calls[j].buffer

\* the value the uniform "stereoMode" has at draw i
DrawMode(i) ==
    LET j == LastBefore({k \in CallsOf("setUniformValue") : calls[k].name = "stereoMode"}, i)
    IN  IF j = 0 THEN "unset" ELSE calls[j].value

\* the draws into buffer buf
DrawsInto(buf) == {i \in Draws : DrawTarget(i) = buf}

\* C12: with hardware stereo every paintGL draws the quad once into the left
\* and once into the right back buffer; when the mode of the frame (Mode_Left
\* for a mono frame) is Mode_OpenGL_Stereo the left buffer is drawn with
\* shader mode Mode_Left and the right one with Mode_Right, otherwise both are
\* drawn with the same shader mode, Mode_Alternating having become the eye
\* other than the one shown last.  Without hardware stereo every paintGL
\* draws once, to the default target.
C12_HardwareStereoDraws ==
    [][Painted' =>
         LET effective == IF PaintedFrame'.viewCount = 2 THEN stereoMode ELSE "Mode_Left"
             resolved == IF effective = "Mode_Alternating"
                         THEN (IF alternatingLastView = 0 THEN "Mode_Right" ELSE "Mode_Left")
                         ELSE effective
         IN  IF openGLStereo
             THEN /\ Cardinality(Draws') = 2
                  /\ Cardinality(DrawsInto("GL_BACK_LEFT")') = 1
                  /\ Cardinality(DrawsInto("GL_BACK_RIGHT")') = 1
                  /\ \A i \in Draws' :
                        DrawMode(i)' =
                           IF effective # "Mode_OpenGL_Stereo" THEN resolved
                           ELSE IF DrawTarget(i)' = "GL_BACK_LEFT" THEN "Mode_Left"
                           ELSE "Mode_Right"
             ELSE /\ Cardinality(Draws') = 1
                  /\ DrawsInto("default")' = Draws']_vars

\* C12 happens: a stereo frame was painted under Mode_OpenGL_Stereo with
\* hardware stereo, the left buffer with Mode_Left, the right with Mode_Right.
C12_Witness ==
    /\ Painted
    /\ openGLStereo
    /\ stereoMode = "Mode_OpenGL_Stereo"
    /\ PaintedFrame.viewCount = 2
    /\ \E i \in DrawsInto("GL_BACK_LEFT") : DrawMode(i) = "Mode_Left"
    /\ \E i \in DrawsInto("GL_BACK_RIGHT") : DrawMode(i) = "Mode_Right"

----------------------------------------------------------------------------
(* The session state at a media change *)

\* C13 as stated: after mediaChanged _alternatingLastView has the value the
\* constructor gave it, 1, whatever it was before.
C13_MediaChangedResetsParity ==
    event = "mediaChanged" => alternatingLastView = 1

----------------------------------------------------------------------------
(* Frames and drawables without extent *)

\* the frame has no view or its views have no extent
GeometryUnknown(f) == f.viewCount = 0 \/ f.viewWidth = 0 \/ f.viewHeight = 0

\* C14 as stated: a paintGL made while the frame geometry is not known, or
\* while the drawable is 0 pixels wide or high, renders no view and draws
\* nothing.
C14_DegenerateRefreshSkipped ==
    (Painted /\ (GeometryUnknown(PaintedFrame) \/ width = 0 \/ height = 0)) =>
        /\ RenderedViews = {}
        /\ CallsOf("glDrawElements") = {}

----------------------------------------------------------------------------
(* Initialization *)

\* the last handler was initializeGL
Initialized == event = "initializeGL"

\* the context initializeGL was given
InitContext == calls[1]

\* the process was ended with a diagnostic
Terminated ==
    /\ phase = "exited"
    /\ CallsOf("LOG_FATAL") # {}
    /\ CallsOf("std::exit") # {}

\* version major.minor is lower than 3.2
BelowThreeTwo(major, minor) == major < 3 \/ (major = 3 /\ minor < 2)

\* C15 as stated: initializeGL ends the process with a diagnostic exactly
\* when the context is invalid, or its version is lower than 3.2, or stereo
\* is configured and the context has none; otherwise it sets up its resources.
C15_FatalIffInsufficient ==
    Initialized =>
        /\ Terminated <=>
              \/ ~InitContext.valid
              \/ BelowThreeTwo(InitContext.major, InitContext.minor)
              \/ (openGLStereo /\ ~InitContext.stereo)
        /\ ~Terminated => (phase = "initialized" /\ CallsOf("initProcess") # {})

\* C16 as stated: when the shader program could not be compiled or linked,
\* initializeGL ends the process with a diagnostic, and paintGL never runs,
\* nor can run, without a linked program.
C16_LinkFailureIsFatal ==
    /\ (Initialized /\ ~prgLinked) => Terminated
    /\ phase = "ready" => prgLinked
    /\ Painted => prgLinked

----------------------------------------------------------------------------
(* The order of the steps of paintGL *)

\* every call of operation a comes before every call of operation b
AllBefore(a, b) == \A i \in CallsOf(a), j \in CallsOf(b) : i < j

\* C17: in one paintGL the geometry query comes first; then, for each view
\* rendered, the mode is known (it is logged), the view is rendered and its
\* mipmaps are generated right after; every render and every mipmap
\* generation comes before the uniforms of the composite pass and every
\* draw; the request for the next redraw, made with the parity flip, is the
\* last call, after the last draw, and the parity changes in no paintGL
\* without it.  Under Mode_Alternating the view rendered and the view shown
\* are both the one other than _alternatingLastView as it was when paintGL
\* began.
C17_OrderWithinPaintGL ==
    [][Painted' =>
         /\ CallsOf("preRenderProcess")' = {1}
         /\ \A i \in CallsOf("LOG_FIREHOSE")' :
               /\ calls'[i].stereoMode =
                     (IF PaintedFrame'.viewCount = 2 THEN stereoMode ELSE "Mode_Left")
               /\ i + 2 <= Len(calls')
               /\ calls'[i + 1].op = "render" /\ calls'[i + 1].view = calls'[i].view
               /\ calls'[i + 2].op = "glGenerateMipmap"
               /\ calls'[i + 2].view = calls'[i].view
         /\ Cardinality(CallsOf("render")') = Cardinality(CallsOf("LOG_FIREHOSE")')
         /\ Cardinality(CallsOf("glGenerateMipmap")') = Cardinality(CallsOf("render")')
         /\ AllBefore("render", "glDrawElements")'
         /\ AllBefore("glGenerateMipmap", "glDrawElements")'
         /\ AllBefore("glGenerateMipmap", "setUniformValue")'
         /\ AllBefore("glDrawElements", "update")'
         /\ Draws' # {}
         /\ CallsOf("update")' \subseteq {Len(calls')}
         /\ alternatingLastView' # alternatingLastView => CallsOf("update")' # {}
         /\ PaintedAlternating' =>
               /\ RenderedViews' = {1 - alternatingLastView}
               /\ ShownViews' = {1 - alternatingLastView}]_vars

\* C17 happens: a stereo frame was painted under Mode_Alternating with
\* hardware stereo; view 0 was rendered and shown, both buffers were drawn,
\* and the last call asked for the next redraw.
C17_Witness ==
    /\ PaintedAlternating
    /\ openGLStereo
    /\ RenderedViews = {0}
    /\ ShownViews = {0}
    /\ Cardinality(Draws) = 2
    /\ calls[Len(calls)].op = "update"
    /\ alternatingLastView = 0

----------------------------------------------------------------------------
(* What the draws display *)

\* the eyes the shader displays under the value m of its uniform "stereoMode"
DisplayedEyes(m) ==
    CASE m = "Mode_Left" -> {0}
      [] m = "Mode_Right" -> {1}
      [] OTHER -> {0, 1}

\* the renders of view v that come before call i
RendersBefore(v, i) == {j \in CallsOf("render") : calls[j].view = v /\ j < i}

\* C18: in every paintGL each eye a draw displays was rendered into its
\* texture earlier in the same paintGL; under Mode_Alternating with a stereo
\* frame the eye displayed is the one other than the eye shown last, and it
\* is the one eye rendered.
C18_DisplayedEyesAreFresh ==
    [][Painted' =>
         /\ \A i \in Draws' : \A v \in DisplayedEyes(DrawMode(i)') :
               RendersBefore(v, i)' # {}
         /\ PaintedAlternating' =>
               \A i \in Draws' :
                  /\ DisplayedEyes(DrawMode(i)') = {1 - alternatingLastView}
                  /\ RenderedViews' = DisplayedEyes(DrawMode(i)')]_vars

\* C18 happens: after two stereo frames under Mode_Alternating without
\* hardware stereo the right eye is drawn, and it is the one view rendered.
C18_Witness ==
    /\ PaintedAlternating
    /\ ~openGLStereo
    /\ alternatingLastView = 1
    /\ \A i \in Draws : DrawMode(i) = "Mode_Right"
    /\ RenderedViews = {1}

\* C19: the value of the uniform "stereoMode" at a draw is never
\* Mode_Alternating: when Mode_Alternating is requested for a stereo frame
\* every draw is made with Mode_Left or Mode_Right, and for a mono frame every
\* draw is made with Mode_Left, whatever mode is requested and with or
\* without hardware stereo.
C19_UniformNeverAlternating ==
    Painted =>
        /\ Draws # {}
        /\ \A i \in Draws :
              /\ DrawMode(i) \in Modes \ {"Mode_Alternating"}
              /\ PaintedAlternating => DrawMode(i) \in {"Mode_Left", "Mode_Right"}
              /\ PaintedFrame.viewCount # 2 => DrawMode(i) = "Mode_Left"
        /\ "Mode_Alternating" \notin StereoModeUniforms

\* C19 happens: a stereo frame was painted under Mode_Alternating with
\* hardware stereo and both buffers were drawn with Mode_Right.
C19_Witness ==
    /\ PaintedAlternating
    /\ openGLStereo
    /\ Cardinality(Draws) = 2
    /\ \A i \in Draws : DrawMode(i) = "Mode_Right"

----------------------------------------------------------------------------
(* The end of a drag *)

\* the view direction paintGL hands to Bino::render: base + current
HorizontalAngleShown ==
    FAdd(threeSixtyHorizontalAngleBase, threeSixtyHorizontalAngleCurrent)
VerticalAngleShown ==
    FAdd(threeSixtyVerticalAngleBase, threeSixtyVerticalAngleCurrent)

\* C20: mouseReleaseEvent leaves base + current as it is, on both axes; a
\* release that comes while no drag is active changes none of the four angles
\* and leaves the flag false.
C20_ReleaseKeepsDirection ==
    [][event' = "mouseReleaseEvent" =>
         /\ HorizontalAngleShown' = HorizontalAngleShown
         /\ VerticalAngleShown' = VerticalAngleShown
         /\ ~inThreeSixtyMovement'
         /\ ~inThreeSixtyMovement => UNCHANGED <<angleVars, inThreeSixtyMovement>>]_vars

\* C20 happens: a drag on both axes that had begun with committed angles
\* other than zero was released, the committed angles changed on both axes and
\* the direction shown is the committed one.
C20_Witness ==
    /\ event = "mouseReleaseEvent"
    /\ gesture.stage = "released" /\ gesture.steady
    /\ DragDx # 0 /\ DragDy # 0
    /\ gesture.base[1] # FZero /\ gesture.base[2] # FZero
    /\ threeSixtyHorizontalAngleBase # gesture.base[1]
    /\ threeSixtyVerticalAngleBase # gesture.base[2]
    /\ HorizontalAngleShown = threeSixtyHorizontalAngleBase
    /\ VerticalAngleShown = threeSixtyVerticalAngleBase

====
